---- MODULE Spec2Model ----
(***************************************************************************)
(* The cat/dog classifier notebook (CatDogClassifier_TensorFlow.ipynb) as  *)
(* a state machine: one action per notebook cell, the fit cell unfolded    *)
(* into the steps of the Keras training loop (Keras 3, the Keras of the    *)
(* TensorFlow releases for the notebook's Python 3.12 kernel).             *)
(*                                                                         *)
(* Images are not modelled pixel by pixel.  A sample is its position in    *)
(* the directory listing of its split (1..n, class "cats" first), the      *)
(* network's weights are the number of optimizer updates applied plus a    *)
(* flag for non-finite values, and a predicted probability is a number of  *)
(* tenths (4, 5, 6 for 0.4, 0.5, 0.6) or NaN.                              *)
(***************************************************************************)
EXTENDS Integers, Sequences, FiniteSets

\* ---- bounds of the model --------------------------------------------------
\* images per class subdirectory of train/
MaxTrain == 1
\* images per class subdirectory of validation/
MaxVal == 2
\* small batch sizes tried besides the notebook's
MaxBatch == 2

\* ---- literals of the notebook ----------------------------------------------
batch_size == 32
steps_per_epoch == 100
epochs == 15
validation_steps == 50
\* y_pred_prob > 0.5, in tenths
Threshold == 5

NaN == 0 - 1
ProbLevels == {4, 5, 6}
\* batch sizes and pass counts of the runs explored: the notebook's own and
\* small ones (a pass count of 1 is the end-to-end scenario of the spec)
BatchSizes == (1..MaxBatch) \cup {batch_size}
EpochCounts == {1, epochs}

VARIABLES
    pc,                   \* the cell (or phase of fit) to run next
    failedAt,             \* the cell whose exception ended the run
    hp,                   \* batch size and pass count of this run
    train_dir,            \* images per class under train/
    validation_dir,       \* images per class under validation/
    train_generator,
    validation_generator,
    model,                \* [built, compiled, params, nan]
    epoch,                \* passes completed by fit
    step,                 \* training steps done in the current pass
    train_it,             \* batches drawn from the current training iterator
    val_step,             \* evaluation steps done in the current pass
    val_it,               \* batches drawn from the current evaluation iterator
    history,              \* History.history: metric name -> list of values
    passLog,              \* per completed pass: steps run, interruption, NaN
    stepsDone,            \* training steps completed since fit began
    warnings,
    valSeen,              \* samples yielded by the current validation traversal
    valFirst,             \* samples yielded by the first complete traversal
    outputs,              \* plots and printed text produced so far
    modelFile,            \* cats_and_dogs_classifier.h5
    pred_sample,          \* sample each row of y_pred_prob was computed from
    pred_params,          \* weights the prediction pass used
    y_pred_prob,
    y_pred,
    y_true,
    cm,
    val_accuracy

vars == <<pc, failedAt, hp, train_dir, validation_dir, train_generator,
          validation_generator, model, epoch, step, train_it, val_step,
          val_it, history, passLog, stepsDone, warnings, valSeen, valFirst,
          outputs, modelFile, pred_sample, pred_params, y_pred_prob, y_pred,
          y_true, cm, val_accuracy>>

\* ---- helpers --------------------------------------------------------------
Range(s) == {s[i] : i \in DOMAIN s}

Min(a, b) == IF a < b THEN a ELSE b

IsPrefix(s, t) == Len(s) <= Len(t) /\ \A i \in 1..Len(s) : s[i] = t[i]

\* np.arange(n)
Arange(n) == [i \in 1..n |-> i]

\* np.random.permutation(n): any of the orders
NpPermutation(n) == {f \in [1..n -> 1..n] : \A i, j \in 1..n : f[i] = f[j] => i = j}

\* ---- data pipeline ----------------------------------------------------------
\* DirectoryIterator.classes: classes in alphabetical order (cats = 0,
\* dogs = 1), the files of a class listed together
Classes(dir) == [i \in 1..(dir.cats + dir.dogs) |-> IF i <= dir.cats THEN 0 ELSE 1]

\* shuffle=False of the validation generator
ValShuffleDefault == TRUE
ValShuffle == FALSE

\* shuffle of the training generator (flow_from_directory's default)
TrainShuffle == TRUE

\* Iterator._set_index_array: the results it can produce
SetIndexArrayAlways(n, shuffle) == NpPermutation(n)
SetIndexArray(n, shuffle) == IF shuffle THEN NpPermutation(n) ELSE {Arange(n)}

\* flow_from_directory: no check that a class has images
FlowFromDirectory(dir, bs, shuffle, ia) ==
    [created |-> TRUE, n |-> dir.cats + dir.dogs, classes |-> Classes(dir),
     batch_size |-> bs, shuffle |-> shuffle, index_array |-> ia]

\* the index array of a shuffled generator between draws
NotDrawn == <<>>

NoGenerator ==
    [created |-> FALSE, n |-> 0, classes |-> <<>>, batch_size |-> 0,
     shuffle |-> FALSE, index_array |-> <<>>]

\* Iterator.__len__: ceil(n / batch_size)
NumBatchesFloor(gen) == gen.n \div gen.batch_size
NumBatches(gen) == (gen.n + gen.batch_size - 1) \div gen.batch_size

\* Iterator.__getitem__(idx), idx from 0: the samples of batch idx
GetItem(gen, idx) ==
    SubSeq(gen.index_array, gen.batch_size * idx + 1,
           Min(gen.batch_size * (idx + 1), gen.n))

\* Iterator.on_epoch_end
OnEpochEnd(gen) ==
    {[gen EXCEPT !.index_array = ia] : ia \in SetIndexArray(gen.n, gen.shuffle)}

\* one full traversal (batches 0 .. len-1): the samples in the order yielded
RECURSIVE TraverseFrom(_, _)
TraverseFrom(gen, idx) ==
    IF idx >= NumBatches(gen) THEN <<>>
    ELSE GetItem(gen, idx) \o TraverseFrom(gen, idx + 1)

Traverse(gen) == TraverseFrom(gen, 0)

\* ---- model ------------------------------------------------------------------
NoModel == [built |-> FALSE, compiled |-> FALSE, params |-> 0, nan |-> FALSE]

\* train_function: one optimizer update; the update may produce non-finite
\* weights, and non-finite weights stay non-finite
TrainStepOn(m, diverges) == [m EXCEPT !.params = @ + 1, !.nan = @ \/ diverges]

\* test_function / predict_function: a forward pass
TestStepUpdates(m) == [m EXCEPT !.params = @ + 1]
TestStep(m) == m

\* ---- history ------------------------------------------------------------------
\* History.on_epoch_end: self.history.setdefault(k, []).append(v)
HistoryOverwrite(h, logs) == [k \in DOMAIN logs |-> <<logs[k]>>]
HistoryAppend(h, logs) ==
    [k \in DOMAIN h \cup DOMAIN logs |->
        IF k \in DOMAIN logs
        THEN Append(IF k \in DOMAIN h THEN h[k] ELSE <<>>, logs[k])
        ELSE h[k]]

MetricNames == {"loss", "accuracy", "val_loss", "val_accuracy"}

\* the logs of a pass: the loss is NaN once the weights are
EpochLogs(m) ==
    [k \in MetricNames |->
        IF k \in {"loss", "val_loss"} /\ m.nan THEN "nan" ELSE "finite"]

\* ---- reporting ------------------------------------------------------------------
\* p > t on floats: a comparison with NaN is false
Gt(p, t) == p # NaN /\ p > t

\* (y_pred_prob > 0.5).astype(int).flatten()
YPred(prob) == [i \in DOMAIN prob |-> IF Gt(prob[i], Threshold) THEN 1 ELSE 0]

\* sklearn unique_labels: the labels that occur, sorted
UniqueLabels(yt, yp) ==
    LET present == Range(yt) \cup Range(yp)
    IN  IF present = {0, 1} THEN <<0, 1>>
        ELSE IF present = {0} THEN <<0>>
        ELSE IF present = {1} THEN <<1>>
        ELSE <<>>

\* sklearn confusion_matrix(y_true, y_pred), labels=None
ConfusionMatrix(yt, yp) ==
    LET labels == UniqueLabels(yt, yp)
    IN  [i \in 1..Len(labels) |->
            [j \in 1..Len(labels) |->
                Cardinality({k \in DOMAIN yt :
                                yt[k] = labels[i] /\ yp[k] = labels[j]})]]

\* sklearn accuracy_score: correct predictions out of all
AccuracyScore(yt, yp) ==
    [correct |-> Cardinality({k \in DOMAIN yt : yt[k] = yp[k]}),
     total |-> Len(yt)]

\* ---- notebook cells ---------------------------------------------------------
Cells == {"download", "setup", "build", "fit", "plot", "save",
          "confusion_matrix", "report", "accuracy", "conclusion"}

\* the cell below a cell, top to bottom
CellAfterSaveLast(c) ==
    CASE c = "download" -> "setup"
      [] c = "setup" -> "build"
      [] c = "build" -> "fit"
      [] c = "fit" -> "plot"
      [] c = "plot" -> "confusion_matrix"
      [] c = "confusion_matrix" -> "report"
      [] c = "report" -> "accuracy"
      [] c = "accuracy" -> "conclusion"
      [] c = "conclusion" -> "save"
      [] OTHER -> "done"
CellAfter(c) ==
    CASE c = "download" -> "setup"
      [] c = "setup" -> "build"
      [] c = "build" -> "fit"
      [] c = "fit" -> "plot"
      [] c = "plot" -> "save"
      [] c = "save" -> "confusion_matrix"
      [] c = "confusion_matrix" -> "report"
      [] c = "report" -> "accuracy"
      [] c = "accuracy" -> "conclusion"
      [] OTHER -> "done"

NoFile == [written |-> "no", params |-> 0, nan |-> FALSE]

Init ==
    /\ pc = "download"
    /\ failedAt = "none"
    /\ hp \in [batch_size : BatchSizes, epochs : EpochCounts]
    /\ train_dir = [cats |-> 0, dogs |-> 0]
    /\ validation_dir = [cats |-> 0, dogs |-> 0]
    /\ train_generator = NoGenerator
    /\ validation_generator = NoGenerator
    /\ model = NoModel
    /\ epoch = 0
    /\ step = 0
    /\ train_it = 0
    /\ val_step = 0
    /\ val_it = 0
    /\ history = <<>>
    /\ passLog = <<>>
    /\ stepsDone = 0
    /\ warnings = {}
    /\ valSeen = <<>>
    /\ valFirst = <<>>
    /\ outputs = {}
    /\ modelFile = NoFile
    /\ pred_sample = <<>>
    /\ pred_params = 0
    /\ y_pred_prob = <<>>
    /\ y_pred = <<>>
    /\ y_true = <<>>
    /\ cm = <<>>
    /\ val_accuracy = [correct |-> 0, total |-> 0]

\* get_file(..., extract=True): the archive's images land under train/ and
\* validation/
Download ==
    /\ pc = "download"
    /\ \E tc \in 0..MaxTrain, td \in 0..MaxTrain, vc \in 0..MaxVal, vd \in 0..MaxVal :
          /\ train_dir' = [cats |-> tc, dogs |-> td]
          /\ validation_dir' = [cats |-> vc, dogs |-> vd]
    /\ pc' = CellAfter("download")
    /\ UNCHANGED <<failedAt, hp, train_generator, validation_generator, model,
                   epoch, step, train_it, val_step, val_it, history, passLog,
                   stepsDone, warnings, valSeen, valFirst, outputs, modelFile,
                   pred_sample, pred_params, y_pred_prob, y_pred, y_true, cm,
                   val_accuracy>>

\* the two flow_from_directory calls.  The validation generator's index array
\* is fixed here; the training generator's is drawn anew for every pass and
\* is left out, since no step of the model reads which training images a
\* batch holds.
Setup ==
    /\ pc = "setup"
    /\ train_generator' =
          FlowFromDirectory(train_dir, hp.batch_size, TrainShuffle, NotDrawn)
    /\ \E ia \in SetIndexArray(validation_dir.cats + validation_dir.dogs, ValShuffle) :
          validation_generator' =
              FlowFromDirectory(validation_dir, hp.batch_size, ValShuffle, ia)
    /\ pc' = CellAfter("setup")
    /\ UNCHANGED <<failedAt, hp, train_dir, validation_dir, model, epoch, step,
                   train_it, val_step, val_it, history, passLog, stepsDone,
                   warnings, valSeen, valFirst, outputs, modelFile, pred_sample,
                   pred_params, y_pred_prob, y_pred, y_true, cm, val_accuracy>>

\* models.Sequential([...])
Build ==
    /\ pc = "build"
    /\ model' = [NoModel EXCEPT !.built = TRUE]
    /\ pc' = CellAfter("build")
    /\ UNCHANGED <<failedAt, hp, train_dir, validation_dir, train_generator,
                   validation_generator, epoch, step, train_it, val_step, val_it,
                   history, passLog, stepsDone, warnings, valSeen, valFirst,
                   outputs, modelFile, pred_sample, pred_params, y_pred_prob,
                   y_pred, y_true, cm, val_accuracy>>

\* model.compile, then the start of model.fit: the data adapter reads batch 0
\* of the training generator for its signature, which raises when the
\* generator is empty
FitBegin ==
    /\ pc = "fit"
    /\ model' = [model EXCEPT !.compiled = TRUE]
    /\ IF NumBatches(train_generator) = 0
       THEN pc' = "failed" /\ failedAt' = "fit"
       ELSE pc' = "train" /\ failedAt' = failedAt
    /\ epoch' = 0
    /\ step' = 0
    /\ train_it' = 0
    /\ history' = <<>>
    /\ UNCHANGED <<hp, train_dir, validation_dir, train_generator,
                   validation_generator, val_step, val_it, passLog, stepsDone,
                   warnings, valSeen, valFirst, outputs, modelFile, pred_sample,
                   pred_params, y_pred_prob, y_pred, y_true, cm, val_accuracy>>

\* one step of a pass: the next batch of the training iterator, one update
TrainStep ==
    /\ pc = "train"
    /\ step < steps_per_epoch
    /\ train_it < NumBatches(train_generator)
    /\ \E diverges \in BOOLEAN : model' = TrainStepOn(model, diverges)
    /\ step' = step + 1
    /\ train_it' = train_it + 1
    /\ stepsDone' = stepsDone + 1
    /\ UNCHANGED <<pc, failedAt, hp, train_dir, validation_dir, train_generator,
                   validation_generator, epoch, val_step, val_it, history,
                   passLog, warnings, valSeen, valFirst, outputs, modelFile,
                   pred_sample, pred_params, y_pred_prob, y_pred, y_true, cm,
                   val_accuracy>>

\* the training steps of a pass end: all steps_per_epoch steps ran, or the
\* iterator has no batch left ("Your input ran out of data; interrupting
\* training", a warning; the iterator is recreated for the next pass).  The evaluation of the pass starts; its
\* adapter raises on an empty validation generator.
TrainEnd ==
    /\ pc = "train"
    /\ step = steps_per_epoch \/ train_it = NumBatches(train_generator)
    /\ IF step < steps_per_epoch
       THEN /\ warnings' = warnings \cup {"ran out of data"}
            /\ train_it' = 0
       ELSE /\ UNCHANGED <<warnings, train_it>>
    /\ IF NumBatches(validation_generator) = 0
       THEN pc' = "failed" /\ failedAt' = "fit"
       ELSE pc' = "eval" /\ failedAt' = failedAt
    /\ val_step' = 0
    /\ UNCHANGED <<hp, train_dir, validation_dir, train_generator,
                   validation_generator, model,
                   epoch, step, val_it, history, passLog, stepsDone, valSeen,
                   valFirst, outputs, modelFile, pred_sample, pred_params,
                   y_pred_prob, y_pred, y_true, cm, val_accuracy>>

\* one evaluation step: the next batch of the evaluation iterator, forward only
EvalStep ==
    /\ pc = "eval"
    /\ val_step < validation_steps
    /\ val_it < NumBatches(validation_generator)
    /\ model' = TestStep(model)
    /\ valSeen' = valSeen \o GetItem(validation_generator, val_it)
    /\ val_step' = val_step + 1
    /\ val_it' = val_it + 1
    /\ UNCHANGED <<pc, failedAt, hp, train_dir, validation_dir, train_generator,
                   validation_generator, epoch, step, train_it, history, passLog,
                   stepsDone, warnings, valFirst, outputs, modelFile,
                   pred_sample, pred_params, y_pred_prob, y_pred, y_true, cm,
                   val_accuracy>>

\* the evaluation of a pass ends (all validation_steps ran, or the iterator
\* ran out: warning, iterator recreated, on_epoch_end); History.on_epoch_end
\* appends the logs of the pass; the next pass starts or fit returns
EvalEnd ==
    /\ pc = "eval"
    /\ val_step = validation_steps \/ val_it = NumBatches(validation_generator)
    /\ IF val_step < validation_steps
       THEN /\ warnings' = warnings \cup {"ran out of data"}
            /\ val_it' = 0
            /\ validation_generator' \in OnEpochEnd(validation_generator)
       ELSE /\ UNCHANGED <<warnings, val_it, validation_generator>>
    /\ IF val_it = NumBatches(validation_generator)
       THEN /\ valFirst' = IF valFirst = <<>> THEN valSeen ELSE valFirst
            /\ valSeen' = <<>>
       ELSE /\ UNCHANGED <<valFirst, valSeen>>
    /\ history' = HistoryAppend(history, EpochLogs(model))
    /\ passLog' = Append(passLog,
                         [train |-> step, eval |-> val_step, nan |-> model.nan,
                          interrupted |-> step < steps_per_epoch
                                          \/ val_step < validation_steps])
    /\ epoch' = epoch + 1
    /\ step' = 0
    /\ pc' = IF epoch + 1 < hp.epochs THEN "train" ELSE CellAfter("fit")
    /\ UNCHANGED <<failedAt, hp, train_dir, validation_dir, train_generator,
                   model, train_it, val_step, stepsDone, outputs, modelFile,
                   pred_sample, pred_params, y_pred_prob, y_pred, y_true, cm,
                   val_accuracy>>

\* the accuracy and loss charts, read from history.history (KeyError when a
\* metric is missing)
Plot ==
    /\ pc = "plot"
    /\ IF MetricNames \subseteq DOMAIN history
       THEN /\ outputs' = outputs \cup {"accuracy_plot", "loss_plot"}
            /\ pc' = CellAfter("plot")
            /\ failedAt' = failedAt
       ELSE /\ outputs' = outputs
            /\ pc' = "failed"
            /\ failedAt' = "plot"
    /\ UNCHANGED <<hp, train_dir, validation_dir, train_generator,
                   validation_generator, model, epoch, step, train_it, val_step,
                   val_it, history, passLog, stepsDone, warnings, valSeen,
                   valFirst, modelFile, pred_sample, pred_params, y_pred_prob,
                   y_pred, y_true, cm, val_accuracy>>

\* model.save('cats_and_dogs_classifier.h5')
Save ==
    /\ pc = "save"
    /\ modelFile' = [written |-> "full", params |-> model.params, nan |-> model.nan]
    /\ pc' = CellAfter("save")
    /\ UNCHANGED <<failedAt, hp, train_dir, validation_dir, train_generator,
                   validation_generator, model, epoch, step, train_it, val_step,
                   val_it, history, passLog, stepsDone, warnings, valSeen,
                   valFirst, outputs, pred_sample, pred_params, y_pred_prob,
                   y_pred, y_true, cm, val_accuracy>>

\* the confusion-matrix cell: model.predict over one fresh traversal of the
\* validation generator, the threshold, the generator's classes, the matrix
\* (which raises on label lists of different lengths) and its display with
\* the two labels 'Cat', 'Dog' (which raises when the matrix is not 2 x 2)
ConfusionMatrixCell ==
    /\ pc = "confusion_matrix"
    /\ LET order == Traverse(validation_generator)
           n == validation_generator.n
       IN  /\ model' = TestStep(model)
           /\ pred_sample' = order
           /\ pred_params' = model.params
           /\ valSeen' = order
           /\ \E prob_of \in (IF model.nan THEN {[s \in 1..n |-> NaN]}
                              ELSE [1..n -> ProbLevels]) :
                 y_pred_prob' = [i \in 1..Len(order) |-> prob_of[order[i]]]
    /\ y_pred' = YPred(y_pred_prob')
    /\ y_true' = validation_generator.classes
    /\ cm' = IF Len(y_true') = Len(y_pred')
             THEN ConfusionMatrix(y_true', y_pred')
             ELSE cm
    /\ IF Len(y_true') = Len(y_pred') /\ Len(cm') = 2
       THEN /\ outputs' = outputs \cup {"confusion_matrix_plot"}
            /\ pc' = CellAfter("confusion_matrix")
            /\ failedAt' = failedAt
       ELSE /\ outputs' = outputs
            /\ pc' = "failed"
            /\ failedAt' = "confusion_matrix"
    /\ UNCHANGED <<hp, train_dir, validation_dir, train_generator,
                   validation_generator, epoch, step, train_it, val_step, val_it,
                   history, passLog, stepsDone, warnings, valFirst, modelFile,
                   val_accuracy>>

\* print(classification_report(y_true, y_pred, target_names=['Cat', 'Dog']))
Report ==
    /\ pc = "report"
    /\ outputs' = outputs \cup {"classification_report"}
    /\ pc' = CellAfter("report")
    /\ UNCHANGED <<failedAt, hp, train_dir, validation_dir, train_generator,
                   validation_generator, model, epoch, step, train_it, val_step,
                   val_it, history, passLog, stepsDone, warnings, valSeen,
                   valFirst, modelFile, pred_sample, pred_params, y_pred_prob,
                   y_pred, y_true, cm, val_accuracy>>

\* val_accuracy = accuracy_score(y_true, y_pred), printed
Accuracy ==
    /\ pc = "accuracy"
    /\ val_accuracy' = AccuracyScore(y_true, y_pred)
    /\ outputs' = outputs \cup {"accuracy"}
    /\ pc' = CellAfter("accuracy")
    /\ UNCHANGED <<failedAt, hp, train_dir, validation_dir, train_generator,
                   validation_generator, model, epoch, step, train_it, val_step,
                   val_it, history, passLog, stepsDone, warnings, valSeen,
                   valFirst, modelFile, pred_sample, pred_params, y_pred_prob,
                   y_pred, y_true, cm>>

\* the summary text with the accuracy interpolated
Conclusion ==
    /\ pc = "conclusion"
    /\ outputs' = outputs \cup {"summary"}
    /\ pc' = CellAfter("conclusion")
    /\ UNCHANGED <<failedAt, hp, train_dir, validation_dir, train_generator,
                   validation_generator, model, epoch, step, train_it, val_step,
                   val_it, history, passLog, stepsDone, warnings, valSeen,
                   valFirst, modelFile, pred_sample, pred_params, y_pred_prob,
                   y_pred, y_true, cm, val_accuracy>>

\* an exception in the running cell (network, disk, memory, unreadable
\* image): the cells below it do not run; a failed save may leave a partial
\* file behind
Fail ==
    /\ pc \notin {"done", "failed"}
    /\ pc' = "failed"
    /\ failedAt' = IF pc \in {"train", "eval"} THEN "fit" ELSE pc
    /\ modelFile' \in IF pc = "save"
                      THEN {modelFile, [modelFile EXCEPT !.written = "partial"]}
                      ELSE {modelFile}
    /\ UNCHANGED <<hp, train_dir, validation_dir, train_generator,
                   validation_generator, model, epoch, step, train_it, val_step,
                   val_it, history, passLog, stepsDone, warnings, valSeen,
                   valFirst, outputs, pred_sample, pred_params, y_pred_prob,
                   y_pred, y_true, cm, val_accuracy>>

Next ==
    \/ Download
    \/ Setup
    \/ Build
    \/ FitBegin
    \/ TrainStep
    \/ TrainEnd
    \/ EvalStep
    \/ EvalEnd
    \/ Plot
    \/ Save
    \/ ConfusionMatrixCell
    \/ Report
    \/ Accuracy
    \/ Conclusion
    \/ Fail

Spec == Init /\ [][Next]_vars

\* ---- properties -----------------------------------------------------------------
PostFitCells == {"plot", "save", "confusion_matrix", "report", "accuracy",
                 "conclusion", "done"}

\* model.fit has returned
FitReturned ==
    \/ pc \in PostFitCells
    \/ pc = "failed" /\ failedAt \in PostFitCells

RECURSIVE SumSeq(_)
SumSeq(s) == IF s = <<>> THEN 0 ELSE Head(s) + SumSeq(Tail(s))

SumCells(m) == SumSeq([i \in DOMAIN m |-> SumSeq(m[i])])

ThresholdIndex(p) == IF p > Threshold THEN 1 ELSE 0

CellRank(c) ==
    CASE c = "download" -> 1
      [] c = "setup" -> 2
      [] c = "build" -> 3
      [] c \in {"fit", "train", "eval"} -> 4
      [] c = "plot" -> 5
      [] c = "save" -> 6
      [] c = "confusion_matrix" -> 7
      [] c = "report" -> 8
      [] c = "accuracy" -> 9
      [] c = "conclusion" -> 10
      [] OTHER -> 11

OutputRank(o) ==
    CASE o \in {"accuracy_plot", "loss_plot"} -> 5
      [] o = "confusion_matrix_plot" -> 7
      [] o = "classification_report" -> 8
      [] o = "accuracy" -> 9
      [] OTHER -> 10

PlotOutputs == {"accuracy_plot", "loss_plot"}

PredictionOutputs == {"confusion_matrix_plot", "classification_report",
                      "accuracy", "summary"}

\* C1: once the prediction pass has run, there is one prediction per recorded
\* true label, the true labels are the validation generator's class list, and
\* the i-th prediction was computed from the i-th sample of the directory
\* listing (the sample whose label is the i-th entry of the class list),
\* whatever was drawn from the generator during training.
C1_PredictionsAlignWithLabels ==
    y_pred_prob # <<>> =>
        /\ Len(y_pred_prob) = Len(y_true)
        /\ y_true = validation_generator.classes
        /\ \A i \in 1..Len(y_pred_prob) : pred_sample[i] = i

C1_Witness ==
    /\ pc = "done"
    /\ hp.epochs = epochs
    /\ Len(passLog) = epochs
    /\ NumBatches(validation_generator) >= 2
    /\ Len(y_pred_prob) >= 3
    /\ Range(y_true) = {0, 1}

\* C2: the confusion matrix is 2 x 2, cell (i,j) counts the validation samples
\* with true label i and thresholded prediction j (1 exactly when the
\* probability is strictly above 0.5), rows sum to the class supports and
\* columns to the numbers of samples predicted as each class.
C2_ConfusionMatrixCells ==
    cm # <<>> =>
        /\ Len(cm) = 2
        /\ \A i, j \in {0, 1} :
              cm[i + 1][j + 1] =
                  Cardinality({k \in DOMAIN y_true :
                                  y_true[k] = i /\ ThresholdIndex(y_pred_prob[k]) = j})
        /\ \A i \in {0, 1} :
              cm[i + 1][1] + cm[i + 1][2] =
                  Cardinality({k \in DOMAIN y_true : y_true[k] = i})
        /\ \A j \in {0, 1} :
              cm[1][j + 1] + cm[2][j + 1] =
                  Cardinality({k \in DOMAIN y_true :
                                  ThresholdIndex(y_pred_prob[k]) = j})

C3_CellOrderInv ==
    /\ pc \in {"train", "eval"} =>
          /\ train_generator.created
          /\ validation_generator.created
          /\ model.compiled
    /\ train_generator.created => pc # "download"
    /\ (outputs # {} \/ y_pred_prob # <<>>) => FitReturned /\ epoch = hp.epochs
    /\ modelFile.written # "no" => FitReturned /\ PlotOutputs \subseteq outputs
    /\ (outputs \cap PredictionOutputs # {} \/ y_pred_prob # <<>>) =>
          modelFile.written = "full"
    /\ "classification_report" \in outputs => "confusion_matrix_plot" \in outputs
    /\ "accuracy" \in outputs => "classification_report" \in outputs
    /\ "summary" \in outputs => "accuracy" \in outputs

C4_FailureTerminatesRun ==
    /\ modelFile.written # "no" =>
          /\ Len(passLog) = hp.epochs
          /\ \A i \in DOMAIN passLog :
                ~passLog[i].nan /\ ~passLog[i].interrupted
    /\ pc = "failed" =>
          /\ \A o \in outputs : OutputRank(o) <= CellRank(failedAt)
          /\ modelFile.written # "no" => CellRank("save") <= CellRank(failedAt)
          /\ cm # <<>> => CellRank("confusion_matrix") <= CellRank(failedAt)

\* the part of C4 about exceptions alone: a run that failed has produced
\* nothing of a later cell, and a failed run never moves again
ExceptionsAbortRun ==
    pc = "failed" =>
        /\ \A o \in outputs : OutputRank(o) <= CellRank(failedAt)
        /\ modelFile.written # "no" => CellRank("save") <= CellRank(failedAt)
        /\ cm # <<>> => CellRank("confusion_matrix") <= CellRank(failedAt)

\* C5: every list of the history has one entry per completed pass, all four
\* metrics are recorded once a pass has completed, the length is the pass
\* count (15 in the notebook's configuration) once fit has returned, and no
\* step of the run changes or removes an entry already recorded.
C5_HistoryLength ==
    /\ \A k \in DOMAIN history : Len(history[k]) = epoch
    /\ Len(passLog) = epoch
    /\ epoch > 0 => DOMAIN history = MetricNames
    /\ FitReturned =>
          /\ epoch = hp.epochs
          /\ hp.epochs = epochs => \A k \in MetricNames : Len(history[k]) = 15

C5_HistoryKept ==
    \A k \in DOMAIN history :
        /\ k \in DOMAIN history'
        /\ IsPrefix(history[k], history'[k])

C5_HistoryAppendOnly ==
    /\ []C5_HistoryLength
    /\ [][C5_HistoryKept]_vars

C5_Witness ==
    /\ pc = "done"
    /\ hp.epochs = epochs
    /\ \A k \in MetricNames : Len(history[k]) = 15

\* C6: every traversal of the validation generator, by an evaluation during
\* training or by the prediction pass, yields the samples in directory order
\* and in the same order as the first traversal.
C6_ValidationOrderInvariant ==
    /\ IsPrefix(valSeen, Arange(validation_generator.n))
    /\ valFirst # <<>> =>
          /\ valFirst = Arange(validation_generator.n)
          /\ IsPrefix(valSeen, valFirst)
    /\ validation_generator.created =>
          validation_generator.index_array = Arange(validation_generator.n)

C6_Witness ==
    /\ pc = "done"
    /\ epoch = epochs
    /\ NumBatches(validation_generator) >= 2
    /\ Len(valFirst) >= 3
    /\ valSeen = valFirst

\* C7: the prediction pass yields every validation sample exactly once, so
\* the confusion-matrix cells sum to the size of the validation split, for
\* every split size and batch size.
C7_PredictionCoversSplit ==
    y_pred_prob # <<>> =>
        /\ Len(pred_sample) = validation_generator.n
        /\ Range(pred_sample) = 1..validation_generator.n
        /\ Len(y_pred) = validation_generator.n
        /\ SumCells(cm) = validation_dir.cats + validation_dir.dogs

C7_Witness ==
    /\ pc = "done"
    /\ validation_dir = [cats |-> 2, dogs |-> 2]
    /\ hp = [batch_size |-> 2, epochs |-> 1]
    /\ Len(history["loss"]) = 1
    /\ SumCells(cm) = 4

\* a class subdirectory of train/ or validation/ holds no image
EmptyClassDir ==
    \/ train_dir.cats = 0
    \/ train_dir.dogs = 0
    \/ validation_dir.cats = 0
    \/ validation_dir.dogs = 0

\* C8: with a class subdirectory that holds no image, the run does not get
\* past generator setup and no training step runs.
C8_EmptyClassFailsFast ==
    (pc # "download" /\ failedAt # "download" /\ EmptyClassDir) =>
        /\ pc = "setup" \/ (pc = "failed" /\ failedAt = "setup")
        /\ stepsDone = 0

\* C9: every completed pass ran exactly steps_per_epoch training steps and
\* validation_steps evaluation steps, evaluation starts only after the
\* training steps of the pass, and fit returns after exactly the configured
\* number of passes.
C9_FixedStepCounts ==
    /\ \A i \in DOMAIN passLog :
          /\ passLog[i].train = steps_per_epoch
          /\ passLog[i].eval = validation_steps
    /\ pc = "eval" => step = steps_per_epoch
    /\ FitReturned => Len(passLog) = hp.epochs

\* the part of C9 about termination alone
FitRunsAllPasses ==
    FitReturned => Len(passLog) = hp.epochs

\* C10: the weights have been updated once per completed training step, only
\* training steps change them, the saved file holds the weights of the
\* trained model, and the prediction pass used those same weights.
C10_ParamsInv ==
    /\ model.params = stepsDone
    /\ modelFile.written = "full" =>
          /\ modelFile.params = model.params
          /\ modelFile.nan = model.nan
    /\ cm # <<>> =>
          /\ modelFile.written = "full"
          /\ pred_params = modelFile.params

C10_ParamsFrame ==
    model' # model =>
        \/ pc \in {"build", "fit"} /\ model'.params = model.params
        \/ /\ pc = "train"
           /\ stepsDone' = stepsDone + 1
           /\ model'.params = model.params + 1

C10_ParamsUpdatedOnlyByTraining ==
    /\ []C10_ParamsInv
    /\ [][C10_ParamsFrame]_vars

C10_Witness ==
    /\ pc = "done"
    /\ epoch = epochs
    /\ stepsDone >= epochs
    /\ modelFile.written = "full"
    /\ pred_params = stepsDone
    /\ cm # <<>>

====
